---- MODULE Spec2Model ----
(***************************************************************************)
(* Model of web_map: the geocode cache builder (locbase_create.py) and the *)
(* nearest-location query (main.py).                                       *)
(*                                                                         *)
(* Text is modelled as Python sees it: a str is a sequence of one-char     *)
(* strings, a file is the sequence of chars the OS holds, and split, join, *)
(* slicing, `in`, str() and float() are computed on those sequences.       *)
(***************************************************************************)
EXTENDS Integers, Sequences, FiniteSets, TLC

\* ------------------------------------------------------------------ bounds
\* Records of the catalogue that clean_info holds: where every maintenance
\* operation can run, and where only the builders run.
NumRecords == 3
NumRecordsBuild == 4
\* The geocoder answers with latitudes 1..MaxCoord.
MaxCoord == 2
\* Operations one session starts, one after another (every write_base run
\* appends lines, so the file grows with them).
MaxOps == 3
\* The same where the process can be interrupted or killed, and where two
\* processes share the files.
MaxOpsCrash == 2
MaxOpsConc == 1
MaxOpsBuild == 2
\* Lines of the cache file a query reads.
MaxLines == 2
\* Places the candidates of a selection lie at.
MaxPlaces == 11
\* Characters of a free-text address.
MaxAddrLen == 7
\* Records of the catalogue a query runs on.
NumRecordsQuery == 6

\* --------------------------------------------------------- Python strings
Tab == "\t"
NL == "\n"
Sep == <<",", " ">>
Digits == <<"0", "1", "2", "3", "4", "5", "6", "7", "8", "9">>

\* s[i:i+len(sub)] == sub
MatchAt(s, sub, i) ==
    /\ i + Len(sub) - 1 <= Len(s)
    /\ SubSeq(s, i, i + Len(sub) - 1) = sub

\* sub in s
Contains(sub, s) == \E i \in 1..(Len(s) + 1) : MatchAt(s, sub, i)

RECURSIVE SplitFrom(_, _, _, _)
SplitFrom(s, sep, i, cur) ==
    IF i > Len(s) THEN <<cur>>
    ELSE IF MatchAt(s, sep, i)
         THEN <<cur>> \o SplitFrom(s, sep, i + Len(sep), <<>>)
         ELSE SplitFrom(s, sep, i + 1, Append(cur, s[i]))

\* s.split(sep), sep non-empty
Split(s, sep) == SplitFrom(s, sep, 1, <<>>)

RECURSIVE Join(_, _)
\* sep.join(parts)
Join(parts, sep) ==
    IF Len(parts) = 0 THEN <<>>
    ELSE IF Len(parts) = 1 THEN parts[1]
    ELSE parts[1] \o sep \o Join(Tail(parts), sep)

\* parts[:n]
FirstN(parts, n) ==
    IF Len(parts) <= n THEN parts ELSE SubSeq(parts, 1, n)

\* parts[-n:]
LastN(parts, n) ==
    IF Len(parts) <= n THEN parts ELSE SubSeq(parts, Len(parts) - n + 1, Len(parts))

\* s[:-1]
DropLast(s) == IF Len(s) = 0 THEN s ELSE SubSeq(s, 1, Len(s) - 1)

RECURSIVE LinesFrom(_, _, _)
LinesFrom(f, i, cur) ==
    IF i > Len(f) THEN (IF cur = <<>> THEN <<>> ELSE <<cur>>)
    ELSE IF f[i] = NL
         THEN <<Append(cur, NL)>> \o LinesFrom(f, i + 1, <<>>)
         ELSE LinesFrom(f, i + 1, Append(cur, f[i]))

\* file.readlines(): every line keeps its newline; a last line may lack one
ReadLines(f) == LinesFrom(f, 1, <<>>)

Range(q) == {q[i] : i \in 1..Len(q)}

RECURSIVE Concat(_)
\* writelines(seq): the lines one after another
Concat(q) == IF Len(q) = 0 THEN <<>> ELSE q[1] \o Concat(Tail(q))

RECURSIVE Orders(_)
\* The orders in which iterating a Python set can visit its elements.
Orders(S) ==
    IF S = {} THEN {<<>>}
    ELSE UNION {{<<x>> \o q : q \in Orders(S \ {x})} : x \in S}

RECURSIVE StrNat(_)
\* str(n) of a number n >= 0: its decimal digits
StrNat(n) == IF n < 10 THEN <<Digits[n + 1]>> ELSE StrNat(n \div 10) \o <<Digits[(n % 10) + 1]>>

DigitValue(c) == CHOOSE d \in 0..9 : Digits[d + 1] = c

RECURSIVE NatOf(_, _)
NatOf(s, acc) == IF Len(s) = 0 THEN acc ELSE NatOf(Tail(s), 10 * acc + DigitValue(s[1]))

ValueError == "ValueError"
\* s spells a number
IsNumber(s) == Len(s) > 0 /\ \A i \in 1..Len(s) : s[i] \in Range(Digits)
\* float(s): the number s spells, ValueError when s is no number
Float(s) == IF IsNumber(s) THEN NatOf(s, 0) ELSE ValueError


\* ------------------------------------------------------------- the inputs
\* One-letter segments; an address is its segments joined by ", ".
Addr(segs) == Join([k \in 1..Len(segs) |-> <<segs[k]>>], Sep)

\* What parse_lines hands on: [film name, release year, shooting address].
Catalogue ==
    << <<"F1", <<"1", "9", "9", "4">>, Addr(<<"a", "b", "c", "d">>)>>,
       <<"F2", <<"1", "9", "9", "4">>, Addr(<<"e", "b", "c", "d">>)>>,
       <<"F3", <<"1", "9", "9", "4">>, Addr(<<"c", "d">>)>>,
       <<"F4", <<"1", "9", "9", "5">>, Addr(<<"d">>)>>,
       <<"F5", <<"1", "9", "9", "5">>, Addr(<<"a", "c", "d">>)>>,
       <<"F6", <<"?", "?", "?", "?">>, Addr(<<"c", "d">>)>> >>

\* The first n records of the catalogue.
Records(n) == SubSeq(Catalogue, 1, IF n < Len(Catalogue) THEN n ELSE Len(Catalogue))

\* get_coordinates: cut_address = ', '.join(address.split(', ')[-3:])
Canonical(address) == Join(LastN(Split(address, Sep), 3), Sep)

\* write_base: address = ', '.join(point[2].split(', ')[-3:])
WbAddress(point) == Join(LastN(Split(point[3], Sep), 3), Sep)

\* find_not_found_addresses: address = ', '.join(point[2].split(', ')[-3:])
FnfAddress(point) == Join(LastN(Split(point[3], Sep), 3), Sep)

\* ------------------------------------------------------------ the geocoder
None == [kind |-> "None"]
GeocoderError == [kind |-> "GeocoderError"]
\* What Nominatim can answer with: a place, nothing, or an exception. The
\* answer for one address may differ from call to call.
Locations ==
    {[kind |-> "Location", latitude |-> n, longitude |-> n + MaxCoord] : n \in 1..MaxCoord}
GeocodeOutcomes == Locations \cup {None, GeocoderError}

\* A line that holds the longitude before the latitude.
CacheLineLonLat(address, location) ==
    address \o <<Tab>> \o StrNat(location.longitude) \o <<" ">>
            \o StrNat(location.latitude) \o <<NL>>

\* address + '\t' + str(location.latitude) + ' ' + str(location.longitude) + '\n'
CacheLine(address, location) ==
    address \o <<Tab>> \o StrNat(location.latitude) \o <<" ">>
            \o StrNat(location.longitude) \o <<NL>>

\* --------------------------------------------------------------- the files
\* The key of a cache line: line.split('\t')[0]
KeyOf(line) == Split(line, <<Tab>>)[1]

NUL == "NUL"

\* A write of data at offset pos of a file opened with 'w': it overwrites
\* what is there, and a gap before pos reads as NUL bytes.
WriteAt(f, pos, data) ==
    LET padded == IF Len(f) < pos THEN f \o [k \in 1..(pos - Len(f)) |-> NUL] ELSE f
        from   == pos + Len(data) + 1
        rest   == IF from <= Len(padded) THEN SubSeq(padded, from, Len(padded)) ELSE <<>>
    IN SubSeq(padded, 1, pos) \o data \o rest

\* The file after handle h hands its buffer to the OS: 'a' appends at the
\* end of the file as it is then, 'w' writes at the handle's own offset.
Flushed(f, h) ==
    IF h.mode = "a" THEN f \o h.buf
    ELSE IF h.mode = "w" THEN WriteAt(f, h.pos, h.buf)
    ELSE f


\* ------------------------------------------------------------------ state
Procs == {1, 2}

VARIABLES
    clean_info, \* parse_lines(read_file(...)): the records of the run
    disk,       \* data/locbase.txt as the OS holds it
    notfound,   \* data/notfound.txt
    st,         \* per process: where it is, its locals, its open handle
    gh,         \* per process: the history the properties speak about
    resolved,   \* history: the keys a builder has written a line for
    quota,      \* per process: the operations it may start
    qy,         \* a get_coordinates call: its argument and what it returned
    sel,        \* a filter_stat call: its argument, its locals, how it ended
    mn,         \* a run of main: its arguments, its locals, how far it got
    cn          \* an address and the keys the builder and the query make of it

vars == <<clean_info, disk, notfound, st, gh, resolved, quota, qy, sel, mn, cn>>

\* The canonical keys of the address universe.
AllKeys == {Canonical(clean_info[k][3]) : k \in 1..Len(clean_info)}

Closed == [mode |-> "closed", buf |-> <<>>, pos |-> 0]

\* A process between two operations.
Idle(runs) ==
    [pc |-> "idle", i |-> 0, cashed |-> {}, address |-> <<>>, location |-> None,
     found_addresses |-> {}, not_found_addresses |-> {}, not_found |-> {},
     rest |-> {}, unique_addresses |-> {}, h |-> Closed, runs |-> runs]

\* History of a process: how its last operation ended, the operation it is
\* in, the file when that operation (or builder pass) started, the geocoder
\* calls of that operation or pass in order, the lines whose resolution
\* succeeded in it, the last two UnresolvedSets, the lines the operation
\* handed to the OS, and the resolved keys a reconciliation pass sent to
\* the geocoder again.
NoHistory ==
    [last |-> "none", op |-> "none", startDisk |-> <<>>, succeeded |-> <<>>,
     calls |-> <<>>, prevUnresolved |-> {k \o <<NL>> : k \in AllKeys},
     unresolved |-> {k \o <<NL>> : k \in AllKeys}, wrote |-> {}, resent |-> {}]

\* The records are read, both files exist and are empty, and no process
\* has started anything.
NoQuery == [pc |-> "none", address |-> <<>>, result |-> None]
NoSelection ==
    [pc |-> "none", stat |-> <<>>, markers_info |-> <<>>, different_locations |-> {},
     index |-> 0]
NoKeys ==
    [pc |-> "none", address |-> <<>>, cut_address |-> <<>>, wb_address |-> <<>>,
     fnf_address |-> <<>>, again |-> <<>>]
NoMain ==
    [pc |-> "none", year |-> <<>>, lat |-> 0, lon |-> 0, names_and_addresses |-> <<>>,
     stat |-> <<>>]

Fresh(n) ==
    /\ clean_info = Records(n)
    /\ qy = NoQuery
    /\ sel = NoSelection
    /\ mn = NoMain
    /\ cn = NoKeys
    /\ disk = <<>>
    /\ notfound = <<>>
    /\ st = [p \in Procs |-> Idle(0)]
    /\ gh = [p \in Procs |-> NoHistory]
    /\ resolved = {}

Init == Fresh(NumRecords) /\ quota = [p \in Procs |-> IF p = 1 THEN MaxOps ELSE 0]

Set(p, r) == st' = [st EXCEPT ![p] = r]
Note(p, g) == gh' = [gh EXCEPT ![p] = g]
\* The history at the start of a builder pass, and of an operation.
BeginPass(p, op) ==
    [gh[p] EXCEPT !.last = "running", !.op = op, !.startDisk = disk,
                  !.succeeded = <<>>, !.calls = <<>>]
Begin(p, op) == [BeginPass(p, op) EXCEPT !.wrote = {}]

\* ------------------------------------------------------------- write_base
StartWriteBase(p) ==
    /\ st[p].pc = "idle"
    /\ st[p].runs < quota[p]
    /\ Set(p, [st[p] EXCEPT !.pc = "wb_for", !.i = 1, !.cashed = {},
                            !.runs = @ + 1])
    /\ Note(p, Begin(p, "write_base"))
    /\ UNCHANGED <<disk, notfound, resolved, quota, clean_info, qy, sel, mn, cn>>

\* A run that does not remember the addresses it has tried.
CashedNothing(cashed, address) == cashed

\* cashed.add(address)
CashedAdd(cashed, address) == cashed \cup {address}

\* for point in clean_info: ... if address not in cashed: cashed.add(address)
WbFor(p) ==
    /\ st[p].pc = "wb_for"
    /\ IF st[p].i > Len(clean_info)
       THEN /\ Set(p, Idle(st[p].runs))
            /\ Note(p, [gh[p] EXCEPT !.last = "done"])
       ELSE LET address == WbAddress(clean_info[st[p].i]) IN
            /\ IF address \notin st[p].cashed
               THEN Set(p, [st[p] EXCEPT !.pc = "wb_geocode", !.address = address,
                                         !.cashed = CashedAdd(@, address)])
               ELSE Set(p, [st[p] EXCEPT !.i = @ + 1])
            /\ UNCHANGED gh
    /\ UNCHANGED <<disk, notfound, resolved, quota, clean_info, qy, sel, mn, cn>>

\* location = geolocator.geocode(address); None fails at location.latitude,
\* and every Exception ends in the except branch: next point.
WbGeocode(p) ==
    /\ st[p].pc = "wb_geocode"
    /\ \E out \in GeocodeOutcomes :
         IF out \in Locations
         THEN /\ Set(p, [st[p] EXCEPT !.pc = "wb_write", !.location = out])
              /\ Note(p, [gh[p] EXCEPT
                     !.calls = Append(@, [address |-> st[p].address, ok |-> TRUE,
                                          location |-> out]),
                     !.succeeded = Append(@, CacheLine(st[p].address, out))])
         ELSE /\ Set(p, [st[p] EXCEPT !.pc = "wb_for", !.i = @ + 1, !.address = <<>>])
              /\ Note(p, [gh[p] EXCEPT
                     !.calls = Append(@, [address |-> st[p].address, ok |-> FALSE,
                                          location |-> None])])
    /\ UNCHANGED <<disk, notfound, resolved, quota, clean_info, qy, sel, mn, cn>>

\* with open(path, 'a') as file: file.write(...)
WbWrite(p) ==
    /\ st[p].pc = "wb_write"
    /\ Set(p, [st[p] EXCEPT !.pc = "wb_close",
                 !.h = [mode |-> "a", pos |-> 0,
                        buf |-> CacheLine(st[p].address, st[p].location)]])
    /\ resolved' = resolved \cup {st[p].address}
    /\ UNCHANGED <<disk, notfound, gh, quota, clean_info, qy, sel, mn, cn>>

\* leaving the with block closes the file: the buffer goes to the OS
WbClose(p) ==
    /\ st[p].pc = "wb_close"
    /\ disk' = Flushed(disk, st[p].h)
    /\ Set(p, [st[p] EXCEPT !.pc = "wb_for", !.i = @ + 1, !.h = Closed,
                            !.address = <<>>, !.location = None])
    /\ Note(p, [gh[p] EXCEPT !.wrote = @ \cup Range(ReadLines(st[p].h.buf))])
    /\ UNCHANGED <<notfound, resolved, quota, clean_info, qy, sel, mn, cn>>


\* ------------------------------------- create_file_with_unique_addresses
StartUnique(p) ==
    /\ st[p].pc = "idle"
    /\ st[p].runs < quota[p]
    /\ Set(p, [st[p] EXCEPT !.pc = "dd_read", !.runs = @ + 1])
    /\ Note(p, Begin(p, "unique"))
    /\ UNCHANGED <<disk, notfound, resolved, quota, clean_info, qy, sel, mn, cn>>

\* set(file.readlines())
UniqueLines(f) == Range(ReadLines(f))

\* The files a whole run can leave of the file f: its distinct lines in
\* the order the set yields them.
UniqueResults(f) == {Concat(order) : order \in Orders(UniqueLines(f))}

DdRead(p) ==
    /\ st[p].pc = "dd_read"
    /\ Set(p, [st[p] EXCEPT !.pc = "dd_open", !.unique_addresses = UniqueLines(disk)])
    /\ UNCHANGED <<disk, notfound, gh, resolved, quota, clean_info, qy, sel, mn, cn>>

\* open(path, 'w') empties the file
DdOpen(p) ==
    /\ st[p].pc = "dd_open"
    /\ disk' = <<>>
    /\ Set(p, [st[p] EXCEPT !.pc = "dd_writelines",
                            !.h = [mode |-> "w", buf |-> <<>>, pos |-> 0]])
    /\ UNCHANGED <<notfound, gh, resolved, quota, clean_info, qy, sel, mn, cn>>

\* file.writelines(unique_addresses): the set's lines in the order it yields them
DdWriteLines(p) ==
    /\ st[p].pc = "dd_writelines"
    /\ \E order \in Orders(st[p].unique_addresses) :
         Set(p, [st[p] EXCEPT !.pc = "dd_close", !.h.buf = @ \o Concat(order)])
    /\ UNCHANGED <<disk, notfound, gh, resolved, quota, clean_info, qy, sel, mn, cn>>

DdClose(p) ==
    /\ st[p].pc = "dd_close"
    /\ disk' = Flushed(disk, st[p].h)
    /\ Set(p, Idle(st[p].runs))
    /\ Note(p, [gh[p] EXCEPT !.last = "done",
                             !.wrote = @ \cup Range(ReadLines(st[p].h.buf))])
    /\ UNCHANGED <<notfound, resolved, quota, clean_info, qy, sel, mn, cn>>

\* ------------------------------------------------ the reconciliation loop
\* __main__: while True: find_not_found_addresses(...); continuous_location_update(...)
StartLoop(p) ==
    /\ st[p].pc = "idle"
    /\ st[p].runs < quota[p]
    /\ Set(p, [st[p] EXCEPT !.pc = "fnf_scan", !.runs = @ + 1])
    /\ Note(p, Begin(p, "loop"))
    /\ UNCHANGED <<disk, notfound, resolved, quota, clean_info, qy, sel, mn, cn>>

\* The keys found, compared without the newline the addresses end with.
FoundAddressesBare(f) == {KeyOf(ReadLines(f)[k]) : k \in 1..Len(ReadLines(f))}

\* found_addresses.add(line.split('\t')[0]+'\n') for every line of the cache
FoundAddresses(f) == {KeyOf(ReadLines(f)[k]) \o <<NL>> : k \in 1..Len(ReadLines(f))}

\* all_addresses.add(address+'\n') for every point of clean_info
AllAddresses == {FnfAddress(clean_info[k]) \o <<NL>> : k \in 1..Len(clean_info)}

\* not_found_addresses = all_addresses.difference(found_addresses)
FnfScan(p) ==
    /\ st[p].pc = "fnf_scan"
    /\ LET found == FoundAddresses(disk)
           unres == AllAddresses \ found IN
       /\ Set(p, [st[p] EXCEPT !.pc = "fnf_write", !.found_addresses = found,
                               !.not_found_addresses = unres])
       /\ Note(p, [BeginPass(p, "loop") EXCEPT !.prevUnresolved = gh[p].unresolved,
                                           !.unresolved = unres])
    /\ UNCHANGED <<disk, notfound, resolved, quota, clean_info, qy, sel, mn, cn>>

\* open(path_dst, 'w'), file.writelines(not_found_addresses), close
FnfWrite(p) ==
    /\ st[p].pc = "fnf_write"
    /\ \E order \in Orders(st[p].not_found_addresses) : notfound' = Concat(order)
    /\ Set(p, [st[p] EXCEPT !.pc = "clu_read", !.found_addresses = {},
                            !.not_found_addresses = {}])
    /\ UNCHANGED <<disk, gh, resolved, quota, clean_info, qy, sel, mn, cn>>

\* An exit that leaves one address unresolved.
NothingLeftButOne(not_found) == Cardinality(not_found) <= 1

\* if not not_found
NothingLeft(not_found) == not_found = {}

\* not_found = set(file.readlines()); if not not_found: exit();
\* then open(path_locbase, 'a') for the whole pass
CluRead(p) ==
    /\ st[p].pc = "clu_read"
    /\ LET not_found == Range(ReadLines(notfound)) IN
       IF NothingLeft(not_found)
       THEN /\ Set(p, Idle(st[p].runs))
            /\ Note(p, [gh[p] EXCEPT !.last = "exited"])
       ELSE /\ Set(p, [st[p] EXCEPT !.pc = "clu_for", !.not_found = not_found,
                                    !.rest = not_found,
                                    !.h = [mode |-> "a", buf |-> <<>>, pos |-> 0]])
            /\ UNCHANGED gh
    /\ UNCHANGED <<disk, notfound, resolved, quota, clean_info, qy, sel, mn, cn>>

\* A failure that ends the pass: no address is left to visit.
AfterFailureAbort(rest, address) == {}

\* except Exception: pass -- the loop goes on with the addresses left
AfterFailure(rest, address) == rest \ {address}

\* for address in not_found: location = geolocator.geocode(address)
CluFor(p) ==
    /\ st[p].pc = "clu_for"
    /\ st[p].rest # {}
    /\ \E address \in st[p].rest, out \in GeocodeOutcomes :
         LET again == IF DropLast(address) \in resolved THEN {DropLast(address)} ELSE {} IN
         IF out \in Locations
         THEN /\ Set(p, [st[p] EXCEPT !.pc = "clu_write", !.address = address,
                                      !.location = out, !.rest = @ \ {address}])
              /\ Note(p, [gh[p] EXCEPT
                     !.calls = Append(@, [address |-> address, ok |-> TRUE,
                                          location |-> out]),
                     !.resent = @ \cup again,
                     !.succeeded = Append(@, CacheLine(DropLast(address), out))])
         ELSE /\ Set(p, [st[p] EXCEPT !.rest = AfterFailure(@, address)])
              /\ Note(p, [gh[p] EXCEPT
                     !.calls = Append(@, [address |-> address, ok |-> FALSE,
                                          location |-> None]),
                     !.resent = @ \cup again])
    /\ UNCHANGED <<disk, notfound, resolved, quota, clean_info, qy, sel, mn, cn>>

\* file.write(address[:-1] + '\t' + str(lat) + ' ' + str(lon) + '\n')
CluWrite(p) ==
    /\ st[p].pc = "clu_write"
    /\ Set(p, [st[p] EXCEPT !.pc = "clu_for", !.address = <<>>, !.location = None,
                 !.h.buf = @ \o CacheLine(DropLast(st[p].address), st[p].location)])
    /\ resolved' = resolved \cup {DropLast(st[p].address)}
    /\ UNCHANGED <<disk, notfound, gh, quota, clean_info, qy, sel, mn, cn>>

\* the for loop is over: leaving the with block closes the cache file
CluClose(p) ==
    /\ st[p].pc = "clu_for"
    /\ st[p].rest = {}
    /\ disk' = Flushed(disk, st[p].h)
    /\ Set(p, [st[p] EXCEPT !.pc = "fnf_scan", !.not_found = {}, !.h = Closed])
    /\ Note(p, [gh[p] EXCEPT !.last = "pass done",
                             !.wrote = @ \cup Range(ReadLines(st[p].h.buf))])
    /\ UNCHANGED <<notfound, resolved, quota, clean_info, qy, sel, mn, cn>>

\* ------------------------------------------------- the runtime around them
\* The buffered writer hands a full buffer to the OS before the file is
\* closed; when that happens depends on the bytes written so far.
Flush(p) ==
    /\ st[p].h.mode # "closed"
    /\ st[p].h.buf # <<>>
    /\ disk' = Flushed(disk, st[p].h)
    /\ Set(p, [st[p] EXCEPT !.h.buf = <<>>, !.h.pos = @ + Len(st[p].h.buf)])
    /\ Note(p, [gh[p] EXCEPT !.wrote = @ \cup Range(ReadLines(st[p].h.buf))])
    /\ UNCHANGED <<notfound, resolved, quota, clean_info, qy, sel, mn, cn>>

\* KeyboardInterrupt between two statements: no except clause catches it
\* (they catch Exception), a with block that is open closes its file, and
\* the process ends.
Interrupt(p) ==
    /\ st[p].pc # "idle"
    /\ disk' = Flushed(disk, st[p].h)
    /\ Set(p, Idle(st[p].runs))
    /\ Note(p, [gh[p] EXCEPT !.last = "interrupted",
                             !.wrote = @ \cup Range(ReadLines(st[p].h.buf))])
    /\ UNCHANGED <<notfound, resolved, quota, clean_info, qy, sel, mn, cn>>

\* The process is killed: what its buffer holds never reaches the OS.
Crash(p) ==
    /\ st[p].pc # "idle"
    /\ Set(p, Idle(st[p].runs))
    /\ Note(p, [gh[p] EXCEPT !.last = "crashed"])
    /\ UNCHANGED <<disk, notfound, resolved, quota, clean_info, qy, sel, mn, cn>>

\* -------------------------------------------------------- specifications
LoopStep(p) ==
    \/ FnfScan(p) \/ FnfWrite(p) \/ CluRead(p) \/ CluFor(p) \/ CluWrite(p)
    \/ CluClose(p) \/ Flush(p)

WriteBaseStep(p) == WbFor(p) \/ WbGeocode(p) \/ WbWrite(p) \/ WbClose(p)

UniqueStep(p) == DdRead(p) \/ DdOpen(p) \/ DdWriteLines(p) \/ DdClose(p)

Body(p) == WriteBaseStep(p) \/ UniqueStep(p) \/ LoopStep(p)

Step(p) == StartWriteBase(p) \/ StartUnique(p) \/ StartLoop(p) \/ Body(p)

\* One process runs the maintenance operations one after another.
Next == Step(1)
Spec == Init /\ [][Next]_vars

\* The same, and the process can be interrupted or killed at any step.
InitCrash == Fresh(NumRecords) /\ quota = [p \in Procs |-> IF p = 1 THEN MaxOpsCrash ELSE 0]
NextCrash == Step(1) \/ Interrupt(1) \/ Crash(1)
SpecCrash == InitCrash /\ [][NextCrash]_vars

\* One process runs the builders (write_base, the reconciliation loop) one
\* after another, on a larger address universe.
InitBuild == Fresh(NumRecordsBuild) /\ quota = [p \in Procs |-> IF p = 1 THEN MaxOpsBuild ELSE 0]
NextBuild == StartWriteBase(1) \/ StartLoop(1) \/ WriteBaseStep(1) \/ LoopStep(1)
SpecBuild == InitBuild /\ [][NextBuild]_vars

\* Two processes work on the same files.
InitConc == Fresh(NumRecords) /\ quota = [p \in Procs |-> MaxOpsConc]
NextConc ==
    \/ StartLoop(1) \/ StartWriteBase(1) \/ StartWriteBase(2) \/ StartUnique(2)
    \/ \E p \in Procs : Body(p)
SpecConc == InitConc /\ [][NextConc]_vars


\* The reconciliation loop of __main__ alone, scheduled fairly: the
\* interpreter always takes the next step of the running program.
InitLoop == Fresh(NumRecords) /\ quota = [p \in Procs |-> IF p = 1 THEN 1 ELSE 0]
NextLoop == StartLoop(1) \/ LoopStep(1)
SpecLoop == InitLoop /\ [][NextLoop]_vars /\ WF_vars(NextLoop)

\* The geocoder call of a pass that resolves the address.
Resolves(p, address) ==
    CluFor(p) /\ st'[p].pc = "clu_write" /\ st'[p].address = address

\* The same loop with a geocoder that is eventually successful: an address
\* that is attempted again and again is resolved by one of the attempts.
SpecLoopFair ==
    /\ InitLoop /\ [][NextLoop]_vars /\ WF_vars(NextLoop)
    /\ \A k \in 1..NumRecords :
          SF_vars(Resolves(1, Canonical(Catalogue[k][3]) \o <<NL>>))

\* ------------------------------------------------------- get_coordinates
IndexError == [kind |-> "IndexError"]

\* (float(line.split('\t')[1].split(' ')[0]),
\*  float(line.split('\t')[1].split(' ')[1][:-1]))
ParseCoordinates(line) ==
    LET fields == Split(line, <<Tab>>) IN
    IF Len(fields) < 2 THEN IndexError
    ELSE LET nums == Split(fields[2], <<" ">>) IN
         IF Len(nums) < 2 THEN IndexError
         ELSE IF ~IsNumber(nums[1]) \/ ~IsNumber(DropLast(nums[2]))
              THEN [kind |-> ValueError]
              ELSE [kind |-> "coordinates",
                    value |-> <<Float(nums[1]), Float(DropLast(nums[2]))>>]

\* address_lat = address_coordinates[0]; address_lon = address_coordinates[1]
AddressLat(address_coordinates) == address_coordinates[1]
AddressLon(address_coordinates) == address_coordinates[2]

\* if cut_address in baseaddress_and_coordinate
Matches(cut_address, line) == Contains(cut_address, line)

\* What get_coordinates(address, path) can return on the file f: the lines
\* are put in a set, the loop returns at the first line of the set that
\* matches, and the set yields its lines in any order; None when the loop
\* ends without a match.
GetCoordinates(address, f) ==
    LET cut_address == Canonical(address)
        hits == {line \in Range(ReadLines(f)) : Matches(cut_address, line)} IN
    IF hits = {} THEN {None} ELSE {ParseCoordinates(line) : line \in hits}

\* The cache lines a query can meet: a key of the catalogue and a place.
CacheLines ==
    {CacheLine(Canonical(Catalogue[k][3]), loc) : k \in 1..Len(Catalogue), loc \in Locations}

RECURSIVE FilesOf(_)
\* The files of n lines.
FilesOf(n) ==
    IF n = 0 THEN {<<>>}
    ELSE {f \o line : f \in FilesOf(n - 1), line \in CacheLines}

CacheFiles == UNION {FilesOf(n) : n \in 0..MaxLines}

InitQuery ==
    /\ clean_info = Records(NumRecords)
    /\ disk \in CacheFiles
    /\ notfound = <<>>
    /\ st = [p \in Procs |-> Idle(0)]
    /\ gh = [p \in Procs |-> NoHistory]
    /\ resolved = {}
    /\ quota = [p \in Procs |-> 0]
    /\ \E k \in 1..Len(Catalogue) :
         qy = [pc |-> "call", address |-> Catalogue[k][3], result |-> None]
    /\ sel = NoSelection
    /\ mn = NoMain
    /\ cn = NoKeys

Lookup ==
    /\ qy.pc = "call"
    /\ \E r \in GetCoordinates(qy.address, disk) :
         qy' = [qy EXCEPT !.pc = "returned", !.result = r]
    /\ UNCHANGED <<clean_info, disk, notfound, st, gh, resolved, quota, sel, mn, cn>>

NextQuery == Lookup
SpecQuery == InitQuery /\ [][NextQuery]_vars

\* Corrupt persisted entries: a line cut before the tab, a line with one
\* number, and a line whose numbers are no numbers.
CorruptLines ==
    UNION {{Canonical(Catalogue[k][3]) \o <<NL>>,
            Canonical(Catalogue[k][3]) \o <<Tab, "1", NL>>,
            Canonical(Catalogue[k][3]) \o <<Tab, "x", " ", "y", NL>>}
           : k \in 1..Len(Catalogue)}

RECURSIVE FilesFrom(_, _)
\* The files of n lines taken from a pool of lines.
FilesFrom(n, pool) ==
    IF n = 0 THEN {<<>>}
    ELSE {f \o line : f \in FilesFrom(n - 1, pool), line \in pool}

\* A cache file that can hold corrupt lines is read by a query and by the
\* cached-key scan of the reconciliation loop.
InitCorrupt ==
    /\ clean_info = Records(NumRecords)
    /\ disk \in UNION {FilesFrom(n, CacheLines \cup CorruptLines) : n \in 0..MaxLines}
    /\ notfound = <<>>
    /\ st = [p \in Procs |-> Idle(0)]
    /\ gh = [p \in Procs |-> NoHistory]
    /\ resolved = {}
    /\ quota = [p \in Procs |-> IF p = 1 THEN 1 ELSE 0]
    /\ \E k \in 1..Len(Catalogue) :
         qy = [pc |-> "call", address |-> Catalogue[k][3], result |-> None]
    /\ sel = NoSelection
    /\ mn = NoMain
    /\ cn = NoKeys

NextCorrupt == Lookup \/ StartLoop(1) \/ FnfScan(1) \/ FnfWrite(1)
SpecCorrupt == InitCorrupt /\ [][NextCorrupt]_vars

\* ----------------------------------------------------------- filter_stat
\* while len(different_locations) != 10
K == 10

\* The candidates of a query: place n lies at (n, n + MaxPlaces), and
\* places 2m-1 and 2m are equally far from the reference point.
PlaceCoordinates(n) == <<n, n + MaxPlaces>>
PlaceDistance(n) == (n + 1) \div 2
Row(film, n) == <<film, <<"p">>, PlaceDistance(n), PlaceCoordinates(n)>>

RECURSIVE RowsOf(_, _, _)
\* The rows of the places of S from place n on, in ascending distance; a
\* second film shot at place twice comes last among the rows as far away.
RowsOf(S, twice, n) ==
    IF n > MaxPlaces THEN <<>>
    ELSE LET here  == IF n \in S THEN <<Row("film", n)>> ELSE <<>>
             owner == IF n % 2 = 0 THEN {n - 1, n} ELSE {n}
             extra == IF twice \in owner /\ twice \in S
                         /\ (n % 2 = 0 \/ n = MaxPlaces)
                      THEN <<Row("other film", twice)>> ELSE <<>>
         IN here \o extra \o RowsOf(S, twice, n + 1)

\* Distance-sorted candidate lists: any set of places, one of them maybe twice.
StatLists == {RowsOf(S, twice, 1) : S \in SUBSET (1..MaxPlaces), twice \in 0..MaxPlaces}

InitSelect ==
    /\ clean_info = Records(NumRecords)
    /\ disk = <<>>
    /\ notfound = <<>>
    /\ st = [p \in Procs |-> Idle(0)]
    /\ gh = [p \in Procs |-> NoHistory]
    /\ resolved = {}
    /\ quota = [p \in Procs |-> 0]
    /\ qy = NoQuery
    /\ mn = NoMain
    /\ cn = NoKeys
    /\ \E stat \in StatLists :
         sel = [pc |-> "while", stat |-> stat, markers_info |-> <<>>,
                different_locations |-> {}, index |-> 0]

\* A walk that leaves out the rows of a location it has seen.
FsWhileSkipSeen ==
    /\ sel.pc = "while"
    /\ IF Cardinality(sel.different_locations) # K
       THEN IF sel.index < Len(sel.stat)
            THEN IF sel.stat[sel.index + 1][4] \in sel.different_locations
                 THEN sel' = [sel EXCEPT !.index = @ + 1]
                 ELSE sel' = [sel EXCEPT
                         !.markers_info = Append(@, sel.stat[sel.index + 1]),
                         !.different_locations = @ \cup {sel.stat[sel.index + 1][4]},
                         !.index = @ + 1]
            ELSE sel' = [sel EXCEPT !.pc = "IndexError"]
       ELSE sel' = [sel EXCEPT !.pc = "returned"]
    /\ UNCHANGED <<clean_info, disk, notfound, st, gh, resolved, quota, qy, mn, cn>>

\* One turn of the while loop: its test, then stat[index], which raises
\* IndexError past the end of the list.
FsWhile ==
    /\ sel.pc = "while"
    /\ IF Cardinality(sel.different_locations) # K
       THEN IF sel.index < Len(sel.stat)
            THEN sel' = [sel EXCEPT
                    !.markers_info = Append(@, sel.stat[sel.index + 1]),
                    !.different_locations = @ \cup {sel.stat[sel.index + 1][4]},
                    !.index = @ + 1]
            ELSE sel' = [sel EXCEPT !.pc = "IndexError"]
       ELSE sel' = [sel EXCEPT !.pc = "returned"]
    /\ UNCHANGED <<clean_info, disk, notfound, st, gh, resolved, quota, qy, mn, cn>>

NextSelect == FsWhile
SpecSelect == InitSelect /\ [][NextSelect]_vars

\* ------------------------------------------------------------------ main
\* key_year.isnumeric() and len(key_year) == 4
GoodYear(key_year) == IsNumber(key_year) /\ Len(key_year) = 4

RECURSIVE FilmsOf(_, _)
\* The (film_name, shooting_address) pairs of one year, in input order.
FilmsOf(info, year) ==
    IF Len(info) = 0 THEN <<>>
    ELSE (IF info[1][2] = year THEN <<<<info[1][1], info[1][3]>>>> ELSE <<>>)
         \o FilmsOf(Tail(info), year)

\* create_dict: the films grouped by release year, bad years ignored
create_dict(info) ==
    [year \in {info[k][2] : k \in {n \in 1..Len(info) : GoodYear(info[n][2])}}
        |-> FilmsOf(info, year)]

Abs(x) == IF x < 0 THEN -x ELSE x

\* calculate_distance: the distance of (la1, lo1) and (la2, lo2). The
\* haversine of the library is stood for by a metric on the grid of places.
calculate_distance(la1, la2, lo1, lo2) == Abs(la1 - la2) + Abs(lo1 - lo2)

RECURSIVE InsertLast(_, _)
\* row put into a list sorted by distance, behind the rows as far away
InsertLast(sorted, row) ==
    IF Len(sorted) = 0 THEN <<row>>
    ELSE IF row[3] < sorted[1][3] THEN <<row>> \o sorted
    ELSE <<sorted[1]>> \o InsertLast(Tail(sorted), row)

RECURSIVE SortByDistance(_)
\* stat.sort(key=lambda x: x[2]): list.sort is stable
SortByDistance(rows) ==
    IF Len(rows) = 0 THEN <<>>
    ELSE InsertLast(SortByDistance(SubSeq(rows, 1, Len(rows) - 1)), rows[Len(rows)])

RECURSIVE StatRows(_, _, _, _)
\* The loop of create_stat over names_and_addresses on the cache file f:
\* the rows appended, or the exception get_coordinates raised on the way.
StatRows(names_and_addresses, lat, lon, f) ==
    IF Len(names_and_addresses) = 0 THEN {[raised |-> "no", stat |-> <<>>]}
    ELSE LET film    == names_and_addresses[1][1]
             address == names_and_addresses[1][2]
             later   == StatRows(Tail(names_and_addresses), lat, lon, f)
         IN UNION {
              IF c = None THEN later
              ELSE IF c.kind # "coordinates" THEN {[raised |-> c.kind, stat |-> <<>>]}
              ELSE {IF t.raised # "no" THEN t
                    ELSE [t EXCEPT !.stat =
                            <<<<film, address,
                                calculate_distance(lat, AddressLat(c.value),
                                                   lon, AddressLon(c.value)),
                                c.value>>>> \o @]
                    : t \in later}
              : c \in GetCoordinates(address, f)}

\* create_stat: the rows of the records get_coordinates finds, by distance
create_stat(names_and_addresses, lat, lon, f) ==
    {IF t.raised # "no" THEN t ELSE [t EXCEPT !.stat = SortByDistance(@)]
     : t \in StatRows(names_and_addresses, lat, lon, f)}

\* The years asked for: two the catalogue has films of, one it has none of.
Years == {<<"1", "9", "9", "4">>, <<"1", "9", "9", "5">>, <<"1", "9", "9", "6">>}

\* main is called with a year and a reference point on a cache file.
InitMain ==
    /\ clean_info = Records(NumRecordsQuery)
    /\ disk \in CacheFiles
    /\ notfound = <<>>
    /\ st = [p \in Procs |-> Idle(0)]
    /\ gh = [p \in Procs |-> NoHistory]
    /\ resolved = {}
    /\ quota = [p \in Procs |-> 0]
    /\ qy = NoQuery
    /\ sel = NoSelection
    /\ cn = NoKeys
    /\ \E year \in Years, lat \in 1..MaxCoord, lon \in (MaxCoord + 1)..(2 * MaxCoord) :
         mn = [NoMain EXCEPT !.pc = "create_dict", !.year = year, !.lat = lat, !.lon = lon]

\* films_by_year = create_dict(clean_info);
\* names_and_addresses = films_by_year[year], a KeyError for a year that is
\* no key of the dict
MainCreateDict ==
    /\ mn.pc = "create_dict"
    /\ LET films_by_year == create_dict(clean_info) IN
       IF mn.year \in DOMAIN films_by_year
       THEN mn' = [mn EXCEPT !.pc = "create_stat",
                             !.names_and_addresses = films_by_year[mn.year]]
       ELSE mn' = [mn EXCEPT !.pc = "KeyError"]
    /\ UNCHANGED <<clean_info, disk, notfound, st, gh, resolved, quota, qy, sel, cn>>

\* stat = create_stat(names_and_addresses, lat, lon, coord_base)
MainCreateStat ==
    /\ mn.pc = "create_stat"
    /\ \E t \in create_stat(mn.names_and_addresses, mn.lat, mn.lon, disk) :
         IF t.raised # "no"
         THEN mn' = [mn EXCEPT !.pc = t.raised]
         ELSE mn' = [mn EXCEPT !.pc = "filter_stat", !.stat = t.stat]
    /\ UNCHANGED <<clean_info, disk, notfound, st, gh, resolved, quota, qy, sel, cn>>

NextMain == MainCreateDict \/ MainCreateStat
SpecMain == InitMain /\ [][NextMain]_vars

\* ------------------------------------------------------ canonicalization
RECURSIVE Texts(_)
\* The texts of n characters: letters, commas and blanks.
Texts(n) ==
    IF n = 0 THEN {<<>>}
    ELSE {Append(t, c) : t \in Texts(n - 1), c \in {"a", ",", " "}}

\* Any free-text address is keyed by the builder and by the query.
InitCanon ==
    /\ clean_info = Records(NumRecords)
    /\ disk = <<>>
    /\ notfound = <<>>
    /\ st = [p \in Procs |-> Idle(0)]
    /\ gh = [p \in Procs |-> NoHistory]
    /\ resolved = {}
    /\ quota = [p \in Procs |-> 0]
    /\ qy = NoQuery
    /\ sel = NoSelection
    /\ mn = NoMain
    /\ \E address \in UNION {Texts(n) : n \in 0..MaxAddrLen} :
         cn = [NoKeys EXCEPT !.pc = "raw", !.address = address]

\* The key of the address where the query and the two builders compute it.
CanonKeys ==
    /\ cn.pc = "raw"
    /\ cn' = [cn EXCEPT !.pc = "keyed",
                        !.cut_address = Canonical(cn.address),
                        !.wb_address = WbAddress(<<"film", "year", cn.address>>),
                        !.fnf_address = FnfAddress(<<"film", "year", cn.address>>)]
    /\ UNCHANGED <<clean_info, disk, notfound, st, gh, resolved, quota, qy, sel, mn>>

\* The key is looked up as an address itself.
CanonAgain ==
    /\ cn.pc = "keyed"
    /\ cn' = [cn EXCEPT !.pc = "rekeyed", !.again = Canonical(cn.cut_address)]
    /\ UNCHANGED <<clean_info, disk, notfound, st, gh, resolved, quota, qy, sel, mn>>

NextCanon == CanonKeys \/ CanonAgain
SpecCanon == InitCanon /\ [][NextCanon]_vars

\* ------------------------------------------------------------- properties
Running(p) == st[p].pc # "idle"
Exited(p) == st[p].pc = "idle" /\ gh[p].last = "exited"

\* C3: the reconciliation loop eventually terminates, whatever the geocoder
\* answers: every key ends resolved or abandoned, none is retried forever.
C3_LoopTerminates == <>Exited(1)

\* The lines and keys a file holds.
FileLines(f) == Range(ReadLines(f))
FileKeys(f) == {KeyOf(line) : line \in FileLines(f)}

\* C11: with a geocoder that eventually succeeds for every key, the
\* reconciliation loop eventually terminates with a line in the cache for
\* every canonical key of the universe, and whenever it has terminated the
\* UnresolvedSet of its last pass is empty.
C11_Converges ==
    /\ <>(Exited(1) /\ AllKeys \subseteq FileKeys(disk))
    /\ [](Exited(1) => gh[1].unresolved = {})

\* The loop has terminated with every key cached, after a pass that had
\* only a part of the universe left to resolve: an attempt failed before.
C11_Witness ==
    /\ Exited(1)
    /\ AllKeys \subseteq FileKeys(disk)
    /\ gh[1].prevUnresolved # {}
    /\ gh[1].prevUnresolved # {k \o <<NL>> : k \in AllKeys}

\* A whole cache line: key, tab, number, space, number, newline.
WholeLine(line) ==
    /\ Len(line) > 0 /\ line[Len(line)] = NL
    /\ Len(Split(line, <<Tab>>)) = 2
    /\ LET nums == Split(DropLast(Split(line, <<Tab>>)[2]), <<" ">>) IN
       /\ Len(nums) = 2
       /\ IsNumber(nums[1])
       /\ IsNumber(nums[2])

Builder(p) == gh[p].op \in {"write_base", "loop"}

\* C4: at every point of a builder run, and after a kill, every entry whose
\* resolution succeeded, except at most the most recent one, is in the
\* cache file the OS holds.
C4_AllButLastDurable ==
    \A p \in Procs :
        (Builder(p) /\ (Running(p) \/ gh[p].last = "crashed")) =>
            \A k \in 1..(Len(gh[p].succeeded) - 1) :
                gh[p].succeeded[k] \in FileLines(disk)

\* C5: after an interrupt of a cache-modifying operation the cache file
\* still holds every key it held when the operation started, and only
\* whole lines.
C5_InterruptKeepsCache ==
    \A p \in Procs :
        gh[p].last = "interrupted" =>
            /\ FileKeys(gh[p].startDisk) \subseteq FileKeys(disk)
            /\ \A line \in FileLines(disk) : WholeLine(line)

Finished(p) == st[p].pc = "idle" /\ gh[p].last \in {"done", "exited"}

\* C6: once two processes working on the same cache file have finished,
\* every line either of them wrote is in the file.
C6_NoLostUpdate ==
    (\A p \in Procs : Finished(p)) =>
        \A p \in Procs : gh[p].wrote \subseteq FileLines(disk)

\* C7: between the operations of one process the cache file holds at most
\* one line per canonical key.
C7_OneLinePerKey ==
    st[1].pc = "idle" =>
        \A i, j \in 1..Len(ReadLines(disk)) :
            i # j => KeyOf(ReadLines(disk)[i]) # KeyOf(ReadLines(disk)[j])

UniqueDone(p) == st[p].pc = "idle" /\ gh[p].op = "unique" /\ gh[p].last = "done"

\* The first line of the sequence lines that has the key k.
FirstWithKey(lines, k) ==
    lines[CHOOSE i \in 1..Len(lines) :
            /\ KeyOf(lines[i]) = k
            /\ \A j \in 1..(i - 1) : KeyOf(lines[j]) # k]

\* C8: after create_file_with_unique_addresses no two lines have the same
\* key and different coordinates, and the line kept for a key is the one
\* written first (the first line with that key of the file before).
C8_FirstWriteWinsPerKey ==
    \A p \in Procs :
        UniqueDone(p) =>
            \A line \in FileLines(disk) :
                line = FirstWithKey(ReadLines(gh[p].startDisk), KeyOf(line))

\* What the rewrite does keep: every distinct line of the file before the
\* call, exactly once, whatever its key.
UniqueKeepsDistinctLines ==
    \A p \in Procs :
        UniqueDone(p) =>
            /\ FileLines(disk) = FileLines(gh[p].startDisk)
            /\ Len(ReadLines(disk)) = Cardinality(FileLines(disk))

\* The lines of the file f, duplicates counted, that have the key k.
LinesWithKey(f, k) == {i \in 1..Len(ReadLines(f)) : KeyOf(ReadLines(f)[i]) = k}

\* C17: a second run of create_file_with_unique_addresses leaves the set
\* of lines the first left; after a run every key of the file has exactly
\* one line, and the file has the keys it had before.
C17_CollapsesPerKey ==
    \A p \in Procs :
        UniqueDone(p) =>
            /\ \A again \in UniqueResults(disk) : FileLines(again) = FileLines(disk)
            /\ \A k \in FileKeys(gh[p].startDisk) : Cardinality(LinesWithKey(disk, k)) = 1
            /\ FileKeys(disk) = FileKeys(gh[p].startDisk)

\* A builder pass is over: a write_base run, or one pass of the loop.
PassOver(p) ==
    \/ st[p].pc = "idle" /\ gh[p].op = "write_base" /\ gh[p].last = "done"
    \/ st[p].pc = "fnf_scan" /\ gh[p].op = "loop" /\ gh[p].last = "pass done"

\* The keys a pass has to work on.
WorkSet(p) ==
    IF gh[p].op = "write_base" THEN AllKeys ELSE gh[p].unresolved

Called(p) == {gh[p].calls[k].address : k \in 1..Len(gh[p].calls)}

\* C9: a failed resolution writes no line and does not end the pass: when
\* the pass is over every key of its work set was sent to the geocoder,
\* and the file is the file at the start of the pass followed by the lines
\* of the resolutions that succeeded, in the order they succeeded.
C9_FailureIsolated ==
    \A p \in Procs :
        PassOver(p) =>
            /\ Called(p) = WorkSet(p)
            /\ disk = gh[p].startDisk \o Concat(gh[p].succeeded)

\* A pass is over in which a resolution failed, a later one succeeded, and
\* lines were written before the failure.
C9_Witness ==
    \E p \in Procs :
        /\ PassOver(p)
        /\ \E i, j \in 1..Len(gh[p].calls) :
              i < j /\ ~gh[p].calls[i].ok /\ gh[p].calls[j].ok
        /\ \E i, j \in 1..Len(gh[p].calls) :
              i < j /\ gh[p].calls[i].ok /\ ~gh[p].calls[j].ok

\* C10: the UnresolvedSet of a pass is a subset of the one of the pass
\* before, holds no key a line was written for, and no such key is sent
\* to the geocoder by a later pass.
C10_Progress ==
    \A p \in Procs :
        /\ gh[p].unresolved \subseteq gh[p].prevUnresolved
        /\ gh[p].resent = {}
        /\ st[p].pc = "fnf_write" =>
              st[p].not_found_addresses \cap {k \o <<NL>> : k \in resolved} = {}

\* A later pass works on a smaller, non-empty UnresolvedSet and has called
\* the geocoder for a key that failed before.
C10_Witness ==
    \E p \in Procs :
        /\ gh[p].unresolved # gh[p].prevUnresolved
        /\ gh[p].unresolved # {}
        /\ resolved # {}
        /\ Len(gh[p].calls) > 0
        /\ st[p].pc = "clu_for"


\* The successful geocoder calls of the operation or pass of p, and the key
\* of a call (the loop passes the address with its newline).
Successes(p) == {k \in 1..Len(gh[p].calls) : gh[p].calls[k].ok}
CallKey(p, k) ==
    IF gh[p].op = "loop" THEN DropLast(gh[p].calls[k].address)
    ELSE gh[p].calls[k].address

\* C12: every line a builder appends has the form key, tab, longitude,
\* space, latitude, newline.
C12_LongitudeFirst ==
    \A p \in Procs : \A line \in Range(gh[p].succeeded) :
        \E k \in Successes(p) :
            line = CallKey(p, k) \o <<Tab>> \o StrNat(gh[p].calls[k].location.longitude)
                     \o <<" ">> \o StrNat(gh[p].calls[k].location.latitude) \o <<NL>>

\* C12: every line a builder appends has the form key, tab, latitude,
\* space, longitude, newline, and the reader takes the first number of the
\* line as the latitude and the second as the longitude: what the geocoder
\* answered as latitude is read back as latitude.
C12_LatitudeFirstRoundTrip ==
    \A p \in Procs :
        /\ Len(gh[p].succeeded) = Cardinality(Successes(p))
        /\ \A line \in Range(gh[p].succeeded) :
              \E k \in Successes(p) :
                 LET location == gh[p].calls[k].location IN
                 /\ line = CallKey(p, k) \o <<Tab>> \o StrNat(location.latitude)
                              \o <<" ">> \o StrNat(location.longitude) \o <<NL>>
                 /\ ParseCoordinates(line).kind = "coordinates"
                 /\ AddressLat(ParseCoordinates(line).value) = location.latitude
                 /\ AddressLon(ParseCoordinates(line).value) = location.longitude
        /\ gh[p].wrote \subseteq
              {CacheLine(key, location) : key \in AllKeys, location \in Locations}

\* write_base and a pass of the loop have each resolved an address and the
\* lines are in the file.
C12_Witness ==
    /\ st[1].pc = "fnf_scan" /\ gh[1].last = "pass done"
    /\ Len(gh[1].succeeded) > 0
    /\ Range(gh[1].succeeded) \subseteq FileLines(disk)
    /\ \E line \in FileLines(disk) : line \notin Range(gh[1].succeeded)

\* The file without its corrupt lines.
WellFormed(f) == Concat(SelectSeq(ReadLines(f), WholeLine))

\* C13: on a cache file with corrupt lines get_coordinates returns what it
\* returns on the well-formed lines alone, without raising, and the
\* cached-key scan of find_not_found_addresses leaves unresolved every key
\* that has no well-formed line.
C13_MalformedSkipped ==
    /\ qy.pc = "returned" => qy.result \in GetCoordinates(qy.address, WellFormed(disk))
    /\ st[1].pc = "fnf_write" =>
          st[1].not_found_addresses = AllAddresses \ FoundAddresses(WellFormed(disk))

\* C14: a run of main for a year that has no film records ends in an
\* explicit UnknownYearError, not in an unhandled lookup fault, and goes
\* no further towards a map.
C14_UnknownYearExplicit ==
    (mn.pc \notin {"none", "create_dict"}
        /\ FilmsOf(clean_info, mn.year) = <<>>) =>
            mn.pc = "UnknownYearError"

\* The record of names_and_addresses a row of stat was made from.
Origin(row) ==
    CHOOSE k \in 1..Len(mn.names_and_addresses) :
        mn.names_and_addresses[k] = <<row[1], row[2]>>

\* The rows of stat are in ascending order of distance, and rows as far
\* away are in the order of their records.
RankedStable(stat) ==
    \A i, j \in 1..Len(stat) :
        i < j => \/ stat[i][3] < stat[j][3]
                 \/ stat[i][3] = stat[j][3] /\ Origin(stat[i]) < Origin(stat[j])

\* A record whose canonical address has a line in the cache file.
Cached(record) == Canonical(record[2]) \in FileKeys(disk)

\* C15: create_stat returns exactly the records whose canonical address
\* has a cache entry, in ascending order of distance, records as far away
\* in their input order.
C15_RankedCachedRecords ==
    mn.pc \notin {"none", "create_dict", "create_stat", "KeyError"} =>
        /\ mn.pc = "filter_stat"
        /\ Len(mn.stat) = Len(SelectSeq(mn.names_and_addresses, Cached))
        /\ {<<mn.stat[k][1], mn.stat[k][2]>> : k \in 1..Len(mn.stat)}
             = Range(SelectSeq(mn.names_and_addresses, Cached))
        /\ RankedStable(mn.stat)

\* What create_stat does return: a row for every record get_coordinates
\* finds a line for (a line that contains the key), ranked as above.
RankedFoundRecords ==
    mn.pc = "filter_stat" =>
        /\ {<<mn.stat[k][1], mn.stat[k][2]>> : k \in 1..Len(mn.stat)}
             = {r \in Range(mn.names_and_addresses) :
                    \E line \in FileLines(disk) : Matches(Canonical(r[2]), line)}
        /\ RankedStable(mn.stat)

\* C16: the key of an address is its last 3 ', '-separated segments joined
\* by ', ', the address itself when it has fewer than 3; the two builders
\* and the query make the same key of it; and the key of a key is the key.
C16_CanonicalKey ==
    /\ cn.pc \in {"keyed", "rekeyed"} =>
          LET segments == Split(cn.address, Sep)
              n == Len(segments) IN
          /\ cn.cut_address =
                IF n < 3 THEN cn.address
                ELSE segments[n - 2] \o Sep \o segments[n - 1] \o Sep \o segments[n]
          /\ cn.wb_address = cn.cut_address
          /\ cn.fnf_address = cn.cut_address
    /\ cn.pc = "rekeyed" => cn.again = cn.cut_address

\* An address of more than 3 segments, the first not empty, was cut to its
\* key, and the key was keyed again.
C16_Witness ==
    /\ cn.pc = "rekeyed"
    /\ Len(Split(cn.address, Sep)) > 3
    /\ Split(cn.address, Sep)[1] # <<>>
    /\ cn.cut_address # cn.address

\* The distinct coordinate pairs of a list of rows.
Places(rows) == {rows[k][4] : k \in 1..Len(rows)}

\* C1: filter_stat returns rows of exactly K distinct coordinate pairs when
\* the list has at least K, and otherwise ends in an explicit
\* InsufficientCandidatesError, never past the end of the list.
C1_SelectOrExplicitError ==
    sel.pc \notin {"none", "while"} =>
        IF Cardinality(Places(sel.stat)) >= K
        THEN sel.pc = "returned" /\ Cardinality(Places(sel.markers_info)) = K
        ELSE sel.pc = "InsufficientCandidatesError"

\* C2: get_coordinates returns the coordinates of a line whose key is the
\* canonical key of the address, and None when no line has that key.
C2_ExactKeyLookup ==
    qy.pc = "returned" =>
        LET exact == {line \in FileLines(disk) : KeyOf(line) = Canonical(qy.address)} IN
        IF exact = {} THEN qy.result = None
        ELSE qy.result \in {ParseCoordinates(line) : line \in exact}

\* C18: when the ranked list has at least K distinct coordinate pairs,
\* filter_stat returns the shortest prefix of the list that holds K of
\* them: the rows in ranked order, none left out, the last one the first
\* row of the K-th location, rows of a location seen before included.
C18_ShortestPrefix ==
    /\ (sel.pc \notin {"none", "while"} /\ Cardinality(Places(sel.stat)) >= K) =>
          sel.pc = "returned"
    /\ sel.pc = "returned" =>
          LET n == Len(sel.markers_info) IN
          /\ n <= Len(sel.stat)
          /\ sel.markers_info = SubSeq(sel.stat, 1, n)
          /\ Cardinality(Places(sel.markers_info)) = K
          /\ Cardinality(Places(SubSeq(sel.stat, 1, n - 1))) = K - 1

\* filter_stat has returned more than K rows, two of them of one location,
\* and has left rows of the list behind.
C18_Witness ==
    /\ sel.pc = "returned"
    /\ Len(sel.markers_info) > K
    /\ Len(sel.markers_info) < Len(sel.stat)

\* C19: in one run of write_base no key is sent to the geocoder twice,
\* whether the first attempt succeeded or failed, and no key gets two
\* lines: the file grows by at most one line for each success.
C19_OncePerRun ==
    \A p \in Procs :
        gh[p].op = "write_base" =>
            /\ \A i, j \in 1..Len(gh[p].calls) :
                  i # j => gh[p].calls[i].address # gh[p].calls[j].address
            /\ \A i, j \in 1..Len(gh[p].succeeded) :
                  i # j => KeyOf(gh[p].succeeded[i]) # KeyOf(gh[p].succeeded[j])
            /\ Len(ReadLines(disk)) <= Len(ReadLines(gh[p].startDisk)) + Len(gh[p].succeeded)

\* A run of write_base is over in which the attempt for a key that two
\* records share failed, and the attempt for another key succeeded.
C19_Witness ==
    \E p \in Procs :
        /\ st[p].pc = "idle" /\ gh[p].op = "write_base" /\ gh[p].last = "done"
        /\ \E c \in 1..Len(gh[p].calls) :
              /\ ~gh[p].calls[c].ok
              /\ \E i, j \in 1..Len(clean_info) :
                    /\ i # j
                    /\ WbAddress(clean_info[i]) = gh[p].calls[c].address
                    /\ WbAddress(clean_info[j]) = gh[p].calls[c].address
        /\ Len(gh[p].succeeded) > 0

====
